---- MODULE Spec2Model ----
(***************************************************************************)
(* Model of src/storage.py: class Storage, an append-only record log with  *)
(* a 2048-byte superblock whose first 8 bytes hold the root address.       *)
(*                                                                         *)
(* Several processes each own at most one Storage instance on the same     *)
(* backing file.  The backing file is a sequence of bytes; every instance  *)
(* reaches it through its own buffered file object (a cursor and a buffer  *)
(* of written but not yet flushed bytes) and through one whole-file        *)
(* exclusive advisory lock (portalocker.lock / portalocker.unlock).        *)
(***************************************************************************)
EXTENDS Integers, Sequences, FiniteSets, TLC

\* ------------------------------------------------------------------------
\* Program constants (class attributes of Storage)
\* ------------------------------------------------------------------------
INTEGER_LENGTH == 8
SUPERBLOCK_SIZE == 2048

\* ------------------------------------------------------------------------
\* Bounds of the model
\* ------------------------------------------------------------------------
\* total number of write() calls in a run
MaxWrites == 2

\* the processes that open the store
Procs == {"p", "q"}
NoProc == "none"

\* the empty payload and "hello"
Payloads == {<< >>, <<104, 101, 108, 108, 111>>}

\* a root address that is not the address of a record
OtherRoot == 66051

\* largest integer the decoder is evaluated on exactly (2^31 - 1)
IntCap == 128 * 256 * 256 * 256 - 1

VARIABLES
    store,      \* the backing file: a byte string
    owner,      \* process holding the OS-level exclusive lock, or NoProc
    pc,         \* per process: position of its Storage instance
    locked,     \* per process: the instance's `locked` flag
    wbuf,       \* per process: bytes written but not yet flushed [at, data]
    rbuf,       \* per process: bytes read ahead of the caller [at, data]
    arg,        \* per process: argument of the call in progress
    ret,        \* the call the last step completed, [by, op, ...] with its
                \* outcome; NoRet when the step completed no call
    written,    \* history: the records [addr, data, by] that write() returned
    committed   \* history: <<X>> for the last completed commit, << >> if none

vars == <<store, owner, pc, locked, wbuf, rbuf, arg, ret, written, committed>>

Min(a, b) == IF a < b THEN a ELSE b
Max(a, b) == IF a > b THEN a ELSE b

\* ------------------------------------------------------------------------
\* Byte strings (Python bytes, and the content of the backing file).
\* A byte string is held as its length and its nonzero bytes:
\*   [len |-> n, nz |-> {<<offset, byte>>}], offsets from 0, byte in 1..255;
\* every offset below len that nz does not name holds the byte 0.
\* ------------------------------------------------------------------------
\* b'' and b'\x00' * n
Zeros(n) == [len |-> n, nz |-> {}]

\* the byte string of a sequence of bytes
Bytes(s) == [len |-> Len(s), nz |-> {<<i - 1, s[i]>> : i \in {j \in 1..Len(s) : s[j] # 0}}]

\* the byte at an offset below b.len
ByteAt(b, o) ==
    LET hit == {e \in b.nz : e[1] = o}
    IN IF hit = {} THEN 0 ELSE (CHOOSE e \in hit : TRUE)[2]

\* a + b
Concat(a, b) == [len |-> a.len + b.len, nz |-> a.nz \cup {<<e[1] + a.len, e[2]>> : e \in b.nz}]

\* b[from:to], for 0 <= from <= to <= b.len
Slice(b, from, to) ==
    [len |-> to - from,
     nz |-> {<<e[1] - from, e[2]>> : e \in {x \in b.nz : x[1] >= from /\ x[1] < to}}]

\* ------------------------------------------------------------------------
\* Binary codec: struct.pack("!Q", n) / struct.unpack("!Q", b)
\* ------------------------------------------------------------------------
RECURSIVE BigEndian(_, _)
\* the k low-order base-256 digits of n, most significant first
BigEndian(n, k) ==
    IF k = 0 THEN << >> ELSE Append(BigEndian(n \div 256, k - 1), n % 256)

_itob(integer) == Bytes(BigEndian(integer, INTEGER_LENGTH))

RECURSIVE Radix256(_, _, _)
\* the number whose base-256 digits are the bytes of b at offsets from..to-1
Radix256(b, from, to) ==
    IF from >= to THEN 0
    ELSE 256 * Radix256(b, from, to - 1) + ByteAt(b, to - 1)

\* struct.unpack raises struct.error unless it is given exactly 8 bytes
\* (ok = FALSE).
\* Values of 2^31 and above are all reported as IntCap: they exceed every
\* file offset of the model, where a read of that many bytes stops at the
\* end of the file all the same.
_btoi(bytes_) ==
    IF bytes_.len # INTEGER_LENGTH THEN [ok |-> FALSE, val |-> 0]
    ELSE IF \/ \E i \in 0..3 : ByteAt(bytes_, i) # 0
            \/ ByteAt(bytes_, 4) >= 128
         THEN [ok |-> TRUE, val |-> IntCap]
         ELSE [ok |-> TRUE, val |-> Radix256(bytes_, 4, 8)]

\* ------------------------------------------------------------------------
\* The file object handed to Storage: a buffered binary stream h with
\*   h.store  the bytes of the backing file
\*   h.buf    the bytes written through this object and not yet flushed,
\*            [at |-> offset, data |-> bytes]
\*   h.rd     the bytes read ahead from the backing file and kept for later
\*            reads, [at |-> offset, data |-> bytes]
\*   h.ahead  whether a read from the backing file reads ahead
\*   h.pos    the cursor
\* ------------------------------------------------------------------------
NoBuf == [at |-> 0, data |-> Zeros(0)]

\* bytes d placed at offset `at` of s; a gap past the end of s holds zeros
Overwrite(s, at, d) ==
    IF d.len = 0 THEN s
    ELSE [len |-> Max(s.len, at + d.len),
          nz |-> {e \in s.nz : e[1] < at \/ e[1] >= at + d.len}
                   \cup {<<e[1] + at, e[2]>> : e \in d.nz}]

\* self._file.flush()
FileFlush(h) ==
    [h EXCEPT !.store = Overwrite(h.store, h.buf.at, h.buf.data),
              !.buf = NoBuf, !.rd = NoBuf]

\* self._file.seek(offset): the cursor moves; a target inside the bytes read
\* ahead leaves them in place, any other seek writes pending bytes out and
\* drops the bytes read ahead
FileSeek(h, offset) ==
    IF /\ h.buf.data.len = 0
       /\ h.rd.data.len > 0
       /\ h.rd.at <= offset
       /\ offset <= h.rd.at + h.rd.data.len
    THEN [h EXCEPT !.pos = offset]
    ELSE [FileFlush(h) EXCEPT !.pos = offset]

\* a seek to the start of the record region instead of the end of the file
_seek_end_RegionStart(h) == FileSeek(h, SUPERBLOCK_SIZE)

\* self._file.seek(0, os.SEEK_END)
_seek_end(h) == LET f == FileFlush(h) IN [f EXCEPT !.pos = f.store.len]

\* a seek to the end of the superblock instead of its start
_seek_superblock_RegionStart(h) == FileSeek(h, SUPERBLOCK_SIZE)

\* self._file.seek(0)
_seek_superblock(h) == FileSeek(h, 0)

\* self._file.tell()
FileTell(h) == h.pos

\* self._file.write(bytes): the bytes join the buffer at the cursor; with
\* through = TRUE the buffer does not keep them (it is full, or the file
\* object is unbuffered) and everything pending reaches the backing file.
FileWrite(h, bytes, through) ==
    LET g == IF h.buf.data.len # 0 /\ h.buf.at + h.buf.data.len # h.pos
             THEN FileFlush(h) ELSE h
        b == IF g.buf.data.len = 0
             THEN [at |-> g.pos, data |-> bytes]
             ELSE [at |-> g.buf.at, data |-> Concat(g.buf.data, bytes)]
        w == [g EXCEPT !.buf = b, !.rd = NoBuf, !.pos = g.pos + bytes.len]
    IN IF through THEN FileFlush(w) ELSE w

\* size of the read-ahead buffer (io.DEFAULT_BUFFER_SIZE)
BufferSize == 8 * 1024

\* the bytes of a read of n bytes at the cursor that the file object f still
\* has from reading ahead, as they were when it fetched them
Kept(f, n) ==
    IF /\ f.rd.data.len > 0
       /\ f.rd.at <= f.pos
       /\ f.pos <= f.rd.at + f.rd.data.len
    THEN Slice(f.rd.data, f.pos - f.rd.at, Min(f.rd.data.len, f.pos - f.rd.at + n))
    ELSE Zeros(0)

\* the rest of the read comes from the backing file, offsets from..last; a
\* file object that reads ahead then keeps what it fetched (up to BufferSize
\* bytes, here the rest of the file) unless the request itself was at least
\* one buffer long
Fetch(f, n, kept, from, last) ==
    [data |-> Concat(kept, Slice(f.store, from, last)),
     h |-> [f EXCEPT
              !.pos = last,
              !.rd = IF f.ahead /\ n - kept.len < BufferSize
                     THEN [at |-> from,
                           data |-> Slice(f.store, from, Max(from, f.store.len))]
                     ELSE NoBuf]]

\* a read of n bytes of which the file object has `kept` already
Serve(f, n, kept) ==
    IF kept.len = n
    THEN [data |-> kept, h |-> [f EXCEPT !.pos = f.pos + kept.len]]
    ELSE Fetch(f, n, kept, f.pos + kept.len,
               Max(f.pos + kept.len, Min(f.store.len, f.pos + n)))

\* self._file.read(n): at most n bytes from the cursor, fewer at end of
\* file: [data, h].  Bytes read ahead earlier are served first.
FileRead(h, n) ==
    Serve(IF h.buf.data.len # 0 THEN FileFlush(h) ELSE h, n,
          Kept(IF h.buf.data.len # 0 THEN FileFlush(h) ELSE h, n))

\* ------------------------------------------------------------------------
\* Storage
\* ------------------------------------------------------------------------
\* The file object of p's instance at the start of a step.  Every method
\* positions the cursor with a seek before its first read or write (lines
\* 49, 89, 101, 108, 115), so the position one call leaves behind never
\* reaches the next call: the cursor lives in h.pos within a step and is
\* not kept between steps.
Handle(p) ==
    [store |-> store, buf |-> wbuf[p], rd |-> rbuf[p], ahead |-> FALSE, pos |-> 0]

\* the same file object when it reads ahead (a buffered reader)
HandleAhead(p) == [Handle(p) EXCEPT !.ahead = TRUE]

\* the new state of p's file object and of the backing file
SetHandle(p, h) ==
    /\ store' = h.store
    /\ wbuf' = [wbuf EXCEPT ![p] = h.buf]
    /\ rbuf' = [rbuf EXCEPT ![p] = h.rd]

NoRet == [by |-> NoProc, op |-> "none"]
\* the argument of a call in progress: [root, data], of which
\* commit_root_address uses root and write uses data
NoArg == [root |-> 0, data |-> Zeros(0)]

\* portalocker.lock(LOCK_EX) returns only when no other process holds the lock
CanLock(p) == locked[p] \/ owner = NoProc

\* a lock() that releases the lock when the instance already holds it
lock_Toggle(p) ==
    IF ~locked[p]
    THEN /\ owner' = p
         /\ locked' = [locked EXCEPT ![p] = TRUE]
    ELSE /\ owner' = NoProc
         /\ locked' = [locked EXCEPT ![p] = FALSE]

\* lock(), once portalocker.lock can return
lock(p) ==
    IF ~locked[p]
    THEN /\ owner' = p
         /\ locked' = [locked EXCEPT ![p] = TRUE]
    ELSE UNCHANGED <<owner, locked>>

\* an unlock() that releases the lock without flushing
unlock_file_NoFlush(p, h) == h

\* unlock() on the file object h: the state of h afterwards
unlock_file(p, h) == IF locked[p] THEN FileFlush(h) ELSE h

\* an unlock() that releases the file's lock whatever the flag says
unlock_lock_Unconditional(p) ==
    /\ owner' = NoProc
    /\ locked' = [locked EXCEPT ![p] = FALSE]

\* an unlock() that clears the flag and leaves the file locked
unlock_lock_FlagOnly(p) ==
    /\ locked' = [locked EXCEPT ![p] = FALSE]
    /\ UNCHANGED owner

\* unlock(): the lock and the flag
unlock_lock(p) ==
    IF locked[p]
    THEN /\ owner' = NoProc
         /\ locked' = [locked EXCEPT ![p] = FALSE]
    ELSE UNCHANGED <<owner, locked>>

\* a _write_integer that pads the integer with one more byte
_write_integer_Padded(h, integer, through) ==
    FileWrite(h, Concat(_itob(integer), Zeros(1)), through)

\* _write_integer(integer); its lock() finds the flag set by the caller
_write_integer(h, integer, through) == FileWrite(h, _itob(integer), through)

\* _read_integer(): [ok, val, h]
_read_integer(h) ==
    LET r == FileRead(h, INTEGER_LENGTH)
        i == _btoi(r.data)
    IN [ok |-> i.ok, val |-> i.val, h |-> r.h]

\* a reservation that pads one byte short
_reserve_superblock_OneShort(h, through) ==
    LET e == _seek_end(h)
        address == FileTell(e)
    IN IF address < SUPERBLOCK_SIZE - 1
       THEN FileWrite(e, Zeros(SUPERBLOCK_SIZE - 1 - address), through)
       ELSE e

\* a constructor that does not reserve the superblock
_reserve_superblock_None(h, through) == h

\* a reservation that pads a short store from offset 0
_reserve_superblock_FromStart(h, through) ==
    LET e == _seek_end(h)
        address == FileTell(e)
    IN IF address < SUPERBLOCK_SIZE
       THEN FileWrite(FileSeek(e, 0), Zeros(SUPERBLOCK_SIZE), through)
       ELSE e

\* a reservation that zero-fills the superblock on every open
_reserve_superblock_Always(h, through) ==
    FileWrite(FileSeek(h, 0), Zeros(SUPERBLOCK_SIZE), through)

\* _reserve_superblock() after its lock()
_reserve_superblock(h, through) ==
    LET e == _seek_end(h)
        address == FileTell(e)
    IN IF address < SUPERBLOCK_SIZE
       THEN FileWrite(e, Zeros(SUPERBLOCK_SIZE - address), through)
       ELSE e

\* a constructor that ends with unlock()
InitBody_Unlocks(p) ==
    /\ owner' = NoProc
    /\ locked' = [locked EXCEPT ![p] = FALSE]
    /\ \E through \in BOOLEAN :
          SetHandle(p, FileFlush(_reserve_superblock(Handle(p), through)))
    /\ pc' = [pc EXCEPT ![p] = "ready"]
    /\ arg' = [arg EXCEPT ![p] = NoArg]
    /\ ret' = [by |-> p, op |-> "init"]
    /\ UNCHANGED <<written, committed>>

\* __init__ from the point where lock() has the lock
InitBody(p) ==
    /\ lock(p)
    /\ \E through \in BOOLEAN :
          SetHandle(p, _reserve_superblock(Handle(p), through))
    /\ pc' = [pc EXCEPT ![p] = "ready"]
    /\ arg' = [arg EXCEPT ![p] = NoArg]
    /\ ret' = [by |-> p, op |-> "init"]
    /\ UNCHANGED <<written, committed>>

\* Storage(file): a new file object on the backing file, locked = False,
\* then _reserve_superblock(), which waits in lock() while another process
\* holds the lock
Open(p) ==
    /\ pc[p] = "closed"
    /\ IF owner = NoProc
       THEN InitBody(p)
       ELSE /\ pc' = [pc EXCEPT ![p] = "init"]
            /\ ret' = NoRet
            /\ UNCHANGED <<store, owner, locked, wbuf, rbuf, arg, written, committed>>

OpenAcquire(p) ==
    /\ pc[p] = "init"
    /\ owner = NoProc
    /\ InitBody(p)

\* write() that takes the address after writing the length prefix
write_AddressAfterLength(h, data, t1, t2) ==
    LET e == _write_integer(_seek_end(h), data.len, t1)
    IN [address |-> FileTell(e), h |-> FileWrite(e, data, t2)]

\* write(data) after its lock(), on the file object h: [address, h]
write(h, data, t1, t2) ==
    LET e == _seek_end(h)
        address == FileTell(e)
    IN [address |-> address,
        h |-> FileWrite(_write_integer(e, data.len, t1), data, t2)]

\* a write() that ends with unlock()
WriteBody_Unlocks(p, data) ==
    /\ owner' = NoProc
    /\ locked' = [locked EXCEPT ![p] = FALSE]
    /\ \E t1, t2 \in BOOLEAN :
          LET w == write(Handle(p), data, t1, t2)
          IN /\ SetHandle(p, FileFlush(w.h))
             /\ ret' = [by |-> p, op |-> "write", arg |-> data, val |-> w.address]
             /\ written' = Append(written, [addr |-> w.address, data |-> data, by |-> p])
    /\ pc' = [pc EXCEPT ![p] = "ready"]
    /\ arg' = [arg EXCEPT ![p] = NoArg]
    /\ UNCHANGED committed

\* write(data) from the point where lock() has the lock
WriteBody(p, data) ==
    /\ lock(p)
    /\ \E t1, t2 \in BOOLEAN :
          LET w == write(Handle(p), data, t1, t2)
          IN /\ SetHandle(p, w.h)
             /\ ret' = [by |-> p, op |-> "write", arg |-> data, val |-> w.address]
             /\ written' = Append(written, [addr |-> w.address, data |-> data, by |-> p])
    /\ pc' = [pc EXCEPT ![p] = "ready"]
    /\ arg' = [arg EXCEPT ![p] = NoArg]
    /\ UNCHANGED committed

Write(p, data) ==
    /\ pc[p] = "ready"
    /\ Len(written) + Cardinality({q \in Procs : pc[q] = "write"}) < MaxWrites
    /\ IF CanLock(p)
       THEN WriteBody(p, data)
       ELSE /\ pc' = [pc EXCEPT ![p] = "write"]
            /\ arg' = [arg EXCEPT ![p] = [NoArg EXCEPT !.data = data]]
            /\ ret' = NoRet
            /\ UNCHANGED <<store, owner, locked, wbuf, rbuf, written, committed>>

WriteAcquire(p) ==
    /\ pc[p] = "write"
    /\ owner = NoProc
    /\ WriteBody(p, arg[p].data)

\* read(address) on the file object h: [ok, length, data, h]; ok = FALSE
\* when _read_integer raises, else data is what read(length) returned
read(h, address) ==
    LET length == _read_integer(FileSeek(h, address))
        data == FileRead(length.h, length.val)
    IN IF length.ok
       THEN [ok |-> TRUE, length |-> length.val, data |-> data.data, h |-> data.h]
       ELSE [ok |-> FALSE, length |-> 0, data |-> Zeros(0), h |-> length.h]

Read(p, address) ==
    /\ pc[p] = "ready"
    /\ LET r == read(Handle(p), address)
       IN /\ SetHandle(p, r.h)
          /\ ret' = [by |-> p, op |-> "read", arg |-> address, ok |-> r.ok,
                      length |-> r.length, val |-> r.data]
    /\ UNCHANGED <<owner, pc, locked, arg, written, committed>>

\* get_root_address() on the file object h: [ok, val, h]
get_root_address(h) == _read_integer(_seek_superblock(h))

GetRoot(p) ==
    /\ pc[p] = "ready"
    /\ LET address == get_root_address(Handle(p))
       IN /\ SetHandle(p, address.h)
          /\ ret' = [by |-> p, op |-> "get_root_address", ok |-> address.ok,
                      val |-> address.val]
    /\ UNCHANGED <<owner, pc, locked, arg, written, committed>>

\* a commit_root_address that puts the root into the backing file first and
\* leaves the pending bytes of the instance where they are
CommitBody_RootFirst(p, root_address) ==
    /\ lock(p)
    /\ store' = Overwrite(store, 0, _itob(root_address))
    /\ pc' = [pc EXCEPT ![p] = "commit_seek"]
    /\ arg' = [arg EXCEPT ![p] = [NoArg EXCEPT !.root = root_address]]
    /\ ret' = NoRet
    /\ UNCHANGED <<wbuf, rbuf, written, committed>>

\* commit_root_address(root_address), lines 99-100: lock() has the lock,
\* then flush()
CommitBody(p, root_address) ==
    /\ lock(p)
    /\ SetHandle(p, FileFlush(Handle(p)))
    /\ pc' = [pc EXCEPT ![p] = "commit_seek"]
    /\ arg' = [arg EXCEPT ![p] = [NoArg EXCEPT !.root = root_address]]
    /\ ret' = NoRet
    /\ UNCHANGED <<written, committed>>

Commit(p, root_address) ==
    /\ pc[p] = "ready"
    /\ IF CanLock(p)
       THEN CommitBody(p, root_address)
       ELSE /\ pc' = [pc EXCEPT ![p] = "commit"]
            /\ arg' = [arg EXCEPT ![p] = [NoArg EXCEPT !.root = root_address]]
            /\ ret' = NoRet
            /\ UNCHANGED <<store, owner, locked, wbuf, rbuf, written, committed>>

CommitAcquire(p) ==
    /\ pc[p] = "commit"
    /\ owner = NoProc
    /\ CommitBody(p, arg[p].root)

\* commit_root_address, lines 101-102: _seek_superblock(), _write_integer()
CommitWrite(p) ==
    /\ pc[p] = "commit_seek"
    /\ \E through \in BOOLEAN :
          SetHandle(p, _write_integer(_seek_superblock(Handle(p)), arg[p].root,
                                    through))
    /\ pc' = [pc EXCEPT ![p] = "commit_flush"]
    /\ ret' = NoRet
    /\ UNCHANGED <<owner, locked, arg, written, committed>>

\* commit_root_address, lines 103-104: flush(), unlock()
CommitEnd(p) ==
    /\ pc[p] = "commit_flush"
    /\ SetHandle(p, unlock_file(p, FileFlush(Handle(p))))
    /\ unlock_lock(p)
    /\ pc' = [pc EXCEPT ![p] = "ready"]
    /\ ret' = [by |-> p, op |-> "commit_root_address", arg |-> arg[p].root]
    /\ arg' = [arg EXCEPT ![p] = NoArg]
    /\ committed' = <<arg[p].root>>
    /\ UNCHANGED written

\* lock() called by the user of the instance
LockBody(p) ==
    /\ ret' = [by |-> p, op |-> "lock", val |-> ~locked[p]]
    /\ lock(p)
    /\ pc' = [pc EXCEPT ![p] = "ready"]
    /\ UNCHANGED <<store, wbuf, rbuf, arg, written, committed>>

Lock(p) ==
    /\ pc[p] = "ready"
    /\ IF CanLock(p)
       THEN LockBody(p)
       ELSE /\ pc' = [pc EXCEPT ![p] = "lock"]
            /\ ret' = NoRet
            /\ UNCHANGED <<store, owner, locked, wbuf, rbuf, arg, written, committed>>

LockAcquire(p) ==
    /\ pc[p] = "lock"
    /\ owner = NoProc
    /\ LockBody(p)

\* unlock() called by the user of the instance
Unlock(p) ==
    /\ pc[p] = "ready"
    /\ SetHandle(p, unlock_file(p, Handle(p)))
    /\ unlock_lock(p)
    /\ ret' = [by |-> p, op |-> "unlock"]
    /\ UNCHANGED <<pc, arg, written, committed>>

\* close(): unlock(), then the file object is closed and the instance is
\* not used again
Close(p) ==
    /\ pc[p] = "ready"
    /\ LET h == FileFlush(unlock_file(p, Handle(p)))
       IN /\ store' = h.store
          /\ wbuf' = [wbuf EXCEPT ![p] = NoBuf]
          /\ rbuf' = [rbuf EXCEPT ![p] = NoBuf]
    /\ unlock_lock(p)
    /\ pc' = [pc EXCEPT ![p] = "closed"]
    /\ ret' = [by |-> p, op |-> "close"]
    /\ UNCHANGED <<arg, written, committed>>

\* ------------------------------------------------------------------------
\* Specification
\* ------------------------------------------------------------------------
\* addresses returned by write() so far
Addresses == {written[i].addr : i \in 1..Len(written)}

\* root addresses a caller commits
RootChoices == Addresses \cup {OtherRoot}

\* no instance yet, on an empty backing file
Init ==
    /\ store = Zeros(0)
    /\ owner = NoProc
    /\ pc = [p \in Procs |-> "closed"]
    /\ locked = [p \in Procs |-> FALSE]
    /\ wbuf = [p \in Procs |-> NoBuf]
    /\ rbuf = [p \in Procs |-> NoBuf]
    /\ arg = [p \in Procs |-> NoArg]
    /\ ret = NoRet
    /\ written = << >>
    /\ committed = << >>

\* the steps of process p
ProcNext(p) ==
    \/ Open(p)
    \/ OpenAcquire(p)
    \/ \E data \in Payloads : Write(p, Bytes(data))
    \/ WriteAcquire(p)
    \/ \E address \in Addresses : Read(p, address)
    \/ GetRoot(p)
    \/ \E root_address \in RootChoices : Commit(p, root_address)
    \/ CommitAcquire(p)
    \/ CommitWrite(p)
    \/ CommitEnd(p)
    \/ Lock(p)
    \/ LockAcquire(p)
    \/ Unlock(p)
    \/ Close(p)

Next == \E p \in Procs : ProcNext(p)

Spec == Init /\ [][Next]_vars

\* The same, on a backing file that may hold bytes before the first
\* instance is constructed: nothing, or nine bytes (a root field and one
\* more byte).
ShortStores == {Zeros(0), Bytes(<<0, 0, 0, 0, 0, 0, 1, 2, 7>>)}

InitShort ==
    /\ store \in ShortStores
    /\ owner = NoProc
    /\ pc = [p \in Procs |-> "closed"]
    /\ locked = [p \in Procs |-> FALSE]
    /\ wbuf = [p \in Procs |-> NoBuf]
    /\ rbuf = [p \in Procs |-> NoBuf]
    /\ arg = [p \in Procs |-> NoArg]
    /\ ret = NoRet
    /\ written = << >>
    /\ committed = << >>

SpecShort == InitShort /\ [][Next]_vars

\* The same as Spec, with a backing file that something outside Storage cuts
\* short in the middle of a record.
CutPoints ==
    UNION {{written[i].addr + 4,
            written[i].addr + INTEGER_LENGTH,
            written[i].addr + INTEGER_LENGTH + written[i].data.len - 1}
           : i \in 1..Len(written)}

\* the backing file is truncated to n bytes
Truncate(n) ==
    /\ n < store.len
    /\ \A p \in Procs : wbuf[p].data.len = 0
    /\ store' = Slice(store, 0, n)
    /\ ret' = NoRet
    /\ UNCHANGED <<owner, pc, locked, wbuf, rbuf, arg, written, committed>>

NextTrunc == Next \/ \E n \in CutPoints : Truncate(n)

SpecTrunc == Init /\ [][NextTrunc]_vars

\* The same as Spec, with read() also called at addresses that write() did
\* not return: in the superblock, and at and past the end of the file.
ProbeAddresses ==
    {0, INTEGER_LENGTH, SUPERBLOCK_SIZE - 1, store.len, store.len + 1}

NextProbe == Next \/ \E p \in Procs : \E address \in ProbeAddresses : Read(p, address)

SpecProbe == Init /\ [][NextProbe]_vars

\* The same as Spec, with file objects that read ahead (the buffered reader
\* that open(path, "r+b") returns): read() and get_root_address() may be
\* served from bytes the file object fetched during an earlier call.
ReadAhead(p, address) ==
    /\ pc[p] = "ready"
    /\ LET r == read(HandleAhead(p), address)
       IN /\ SetHandle(p, r.h)
          /\ ret' = [by |-> p, op |-> "read", arg |-> address, ok |-> r.ok,
                      length |-> r.length, val |-> r.data]
    /\ UNCHANGED <<owner, pc, locked, arg, written, committed>>

GetRootAhead(p) ==
    /\ pc[p] = "ready"
    /\ LET address == get_root_address(HandleAhead(p))
       IN /\ SetHandle(p, address.h)
          /\ ret' = [by |-> p, op |-> "get_root_address", ok |-> address.ok,
                      val |-> address.val]
    /\ UNCHANGED <<owner, pc, locked, arg, written, committed>>

\* the steps of process p when its file object reads ahead
ProcNextAhead(p) ==
    \/ Open(p)
    \/ OpenAcquire(p)
    \/ \E data \in Payloads : Write(p, Bytes(data))
    \/ WriteAcquire(p)
    \/ \E address \in Addresses : ReadAhead(p, address)
    \/ GetRootAhead(p)
    \/ \E root_address \in RootChoices : Commit(p, root_address)
    \/ CommitAcquire(p)
    \/ CommitWrite(p)
    \/ CommitEnd(p)
    \/ Lock(p)
    \/ LockAcquire(p)
    \/ Unlock(p)
    \/ Close(p)

NextAhead == \E p \in Procs : ProcNextAhead(p)

SpecAhead == Init /\ [][NextAhead]_vars

\* The same as Spec, with a portalocker.lock that may raise (resource
\* unavailable, I/O error) instead of returning.  lock() has no handler and
\* sets the flag only after portalocker.lock has returned (line 73), and
\* every caller calls lock() in its first line, so the exception leaves the
\* method before anything else runs.
\* a lock() that sets the flag before portalocker.lock is called
lock_raises_FlagFirst(p) ==
    /\ locked' = [locked EXCEPT ![p] = TRUE]
    /\ UNCHANGED owner

\* lock() when portalocker.lock raises: line 73 is not reached
lock_raises(p) == UNCHANGED <<owner, locked>>

\* the call `op` of p ends with the exception of portalocker.lock; a
\* constructor that raises leaves no instance behind
LockError(p, op) ==
    /\ ~locked[p]
    /\ lock_raises(p)
    /\ pc' = [pc EXCEPT ![p] = IF op = "init" THEN "closed" ELSE "ready"]
    /\ arg' = [arg EXCEPT ![p] = NoArg]
    /\ ret' = [by |-> p, op |-> "error", in |-> op]
    /\ UNCHANGED <<store, wbuf, rbuf, written, committed>>

\* Storage(file) raises in _reserve_superblock's lock(), at once or after
\* waiting
OpenFails(p) ==
    /\ pc[p] \in {"closed", "init"}
    /\ LockError(p, "init")

\* write(data) raises in its lock() (line 107)
WriteFails(p) ==
    /\ pc[p] \in {"ready", "write"}
    /\ LockError(p, "write")

\* commit_root_address(root_address) raises in its lock() (line 99)
CommitFails(p) ==
    /\ pc[p] \in {"ready", "commit"}
    /\ LockError(p, "commit_root_address")

\* lock() called by the user raises
LockFails(p) ==
    /\ pc[p] \in {"ready", "lock"}
    /\ LockError(p, "lock")

NextLockFail ==
    \/ Next
    \/ \E p \in Procs : OpenFails(p)
    \/ \E p \in Procs : WriteFails(p)
    \/ \E p \in Procs : CommitFails(p)
    \/ \E p \in Procs : LockFails(p)

SpecLockFail == Init /\ [][NextLockFail]_vars

\* The same steps as Spec under fair scheduling.  A process inside
\* commit_root_address runs on to its end (lines 101-104 do not wait for
\* anything); a caller that holds the lock comes to call unlock() or close()
\* unless a commit_root_address has released the lock before; and a process
\* waiting in portalocker.lock, which retries whenever the lock is released,
\* is not passed over for ever.  Each of these steps changes the holder of
\* the lock or the position of the process.
Fairness ==
    \A p \in Procs :
        /\ WF_<<owner, pc>>(CommitWrite(p) \/ CommitEnd(p))
        /\ WF_<<owner, pc>>(locked[p] /\ (Unlock(p) \/ Close(p)))
        /\ SF_<<owner, pc>>(OpenAcquire(p) \/ WriteAcquire(p)
                               \/ CommitAcquire(p) \/ LockAcquire(p))

SpecFair == Init /\ [][Next]_vars /\ Fairness

\* the content of the store as p's instance has it: the backing file with
\* the bytes of p's buffer in place
View(p) == FileFlush(Handle(p)).store

\* p has an instance whose constructor has returned
IsOpen(p) == pc[p] # "closed" /\ pc[p] # "init"

\* ------------------------------------------------------------------------
\* C1  Round trip
\* ------------------------------------------------------------------------
Hello == Bytes(<<104, 101, 108, 108, 111>>)

\* the most recent write(): [addr, data, by]
LastWrite == written[Len(written)]

\* C1: a read() by the writing process at the address its write(data) has
\* just returned (no write in between, whatever writes and commits came
\* before) succeeds and returns exactly data, the empty payload included.
RoundTrip ==
    (/\ Len(written) > 0
     /\ ret.op = "read"
     /\ ret.by = LastWrite.by
     /\ ret.arg = LastWrite.addr)
    => (ret.ok /\ ret.val = LastWrite.data)

\* a read of "hello" at the second record, after a commit
RoundTripWitness ==
    /\ Len(written) = 2
    /\ committed # << >>
    /\ ret.op = "read"
    /\ ret.by = LastWrite.by
    /\ ret.arg = LastWrite.addr
    /\ LastWrite.data = Hello
    /\ ret.val = Hello

\* ------------------------------------------------------------------------
\* C2  Root persistence
\* ------------------------------------------------------------------------
\* a commit_root_address() has the lock and has not returned yet
CommitInProgress == \E q \in Procs : pc[q] \in {"commit_seek", "commit_flush"}

\* C2: once commit_root_address(X) has returned and no later commit is under
\* way, get_root_address() returns X on every open instance whose file
\* object holds no bytes read ahead, in particular on one constructed after
\* the commit and a close() (its superblock reservation leaves the root
\* alone).
RootPersistence ==
    (committed # << >> /\ ~CommitInProgress)
    => \A p \in Procs :
          (IsOpen(p) /\ rbuf[p] = NoBuf)
          => /\ get_root_address(Handle(p)).ok
             /\ get_root_address(Handle(p)).val = committed[1]
             /\ get_root_address(HandleAhead(p)).val = committed[1]

\* X was committed, the committing instance is closed, and the last step
\* constructed a new instance, on which get_root_address() yields X
RootPersistenceWitness ==
    \E p \in Procs :
        /\ committed = <<OtherRoot>>
        /\ \A q \in Procs \ {p} : pc[q] = "closed"
        /\ ret = [by |-> p, op |-> "init"]
        /\ get_root_address(Handle(p)).val = OtherRoot

\* ------------------------------------------------------------------------
\* C3  Mutual exclusion
\* ------------------------------------------------------------------------
\* C3: at most one instance holds the lock (an instance whose flag is set is
\* the one holder of the file's lock), and a step of process p changes the
\* backing file only while p's instance holds the lock: p holds it before
\* the step or acquires it in the step (the padding of the reservation, the
\* append of write, the root of commit_root_address, and every flush of
\* bytes these left in the buffer).
MutualExclusion ==
    /\ [](\A p \in Procs : locked[p] => owner = p)
    /\ [](\A p \in Procs : wbuf[p].data.len > 0 => locked[p])
    /\ [][\A p \in Procs :
            (ProcNext(p) /\ store' # store) => (locked[p] \/ locked'[p])]_vars

\* p holds the lock with a record appended to the file while q waits in
\* the lock() of its write
MutualExclusionWitness ==
    \E p, q \in Procs :
        /\ p # q
        /\ owner = p
        /\ locked[p]
        /\ pc[q] = "write"
        /\ store.len > SUPERBLOCK_SIZE

\* ------------------------------------------------------------------------
\* C4  Write-then-commit is one critical section
\* ------------------------------------------------------------------------
\* C4: write() returns with the lock held; an instance that holds the lock
\* gives it up only in its own commit_root_address(), unlock() or close(),
\* and commit_root_address() gives it up only as it returns; while it holds
\* the lock no step of another process changes the backing file, takes the
\* lock, or completes a write or a commit.
CriticalSection ==
    /\ [][\A p \in Procs :
            (ret'.by = p /\ ret'.op = "write") => (locked'[p] /\ owner' = p)]_vars
    /\ [](\A p \in Procs : pc[p] \in {"commit_seek", "commit_flush"} => locked[p])
    /\ [][\A p \in Procs :
            (locked[p] /\ ~locked'[p])
            => /\ ret'.by = p
               /\ ret'.op \in {"commit_root_address", "unlock", "close"}]_vars
    /\ [][\A p \in Procs : \A q \in Procs \ {p} :
            (locked[p] /\ ProcNext(q))
            => /\ store' = store
               /\ owner' = owner
               /\ written' = written
               /\ committed' = committed]_vars

\* p wrote two records and its commit of the second has just returned, all
\* while q was waiting in the lock() of its own commit
CriticalSectionWitness ==
    \E p \in Procs : \E q \in Procs \ {p} :
        /\ Len(written) = 2
        /\ written[1].by = p
        /\ written[2].by = p
        /\ ret = [by |-> p, op |-> "commit_root_address", arg |-> written[2].addr]
        /\ pc[q] = "commit"
        /\ arg[q].root = OtherRoot
        /\ committed = <<written[2].addr>>

\* ------------------------------------------------------------------------
\* C5  Record immutability
\* ------------------------------------------------------------------------
\* the bytes of record r: length prefix, then payload
RecordBytes(r) == Concat(_itob(r.data.len), r.data)

\* offset of the first byte after record r
RecordEnd(r) == r.addr + INTEGER_LENGTH + r.data.len

\* the bytes of b at r's place are r's bytes
HoldsRecord(b, r) ==
    /\ b.len >= RecordEnd(r)
    /\ Slice(b, r.addr, RecordEnd(r)) = RecordBytes(r)

\* record r is in the backing file
Durable(r) == HoldsRecord(store, r)

\* C5: a record that write() returned stays where it is with the bytes it
\* was written with: the writing instance sees it at its address from then
\* on; the bytes of it that have reached the backing file never change and
\* the file never shrinks; once it is whole in the backing file it stays so,
\* through every later write, commit, unlock, close and reopening by any
\* process; and every read() at its address, by the writing process or by
\* any process once the record is in the backing file, returns its payload.
RecordImmutable ==
    /\ [](\A i \in 1..Len(written) :
            LET r == written[i]
            IN /\ HoldsRecord(FileFlush(Handle(r.by)).store, r)
               /\ (ret.op = "read" /\ ret.arg = r.addr /\ (ret.by = r.by \/ Durable(r)))
                  => (ret.ok /\ ret.val = r.data))
    /\ [][\A i \in 1..Len(written) :
            LET r == written[i]
                hi == Min(store.len, RecordEnd(r))
            IN /\ store'.len >= store.len
               /\ hi > r.addr => Slice(store', r.addr, hi) = Slice(store, r.addr, hi)
               /\ Durable(r) => HoldsRecord(store', r)]_vars

\* after p's record "hello", a second write, a commit and the closing of
\* p's instance, process q reads "hello" at the first address
RecordImmutableWitness ==
    \E p \in Procs : \E q \in Procs \ {p} :
        /\ Len(written) = 2
        /\ written[1].by = p
        /\ written[1].data = Hello
        /\ committed # << >>
        /\ pc[p] = "closed"
        /\ ret.op = "read"
        /\ ret.by = q
        /\ ret.arg = written[1].addr
        /\ ret.val = Hello

\* ------------------------------------------------------------------------
\* C6  Monotonic addressing
\* ------------------------------------------------------------------------
\* C6: of any two write() calls on the store, by the same or by different
\* processes and with commits in between, the later returns an address at or
\* past the end of the earlier record: address2 >= address1 + 8 + len(data1);
\* addresses strictly increase and records do not overlap.
MonotonicAddressing ==
    \A i, j \in 1..Len(written) :
        i < j => /\ written[j].addr >= written[i].addr + 8 + written[i].data.len
                 /\ written[j].addr > written[i].addr

\* "hello" written by p, a commit, then a write by q that returned 2061
MonotonicAddressingWitness ==
    /\ Len(written) = 2
    /\ written[1].by # written[2].by
    /\ written[1].data = Hello
    /\ committed # << >>
    /\ ret.op = "write"
    /\ ret.val = written[2].addr
    /\ written[2].addr = written[1].addr + 13

\* ------------------------------------------------------------------------
\* C7  Initial state
\* ------------------------------------------------------------------------
\* C7: on a store that was empty when first opened, as long as no write has
\* been made and no commit begun, every open instance has a store of
\* exactly SUPERBLOCK_SIZE bytes, all zero, and get_root_address() returns
\* 0; after such a call these 2048 zero bytes are the backing file.
InitialState ==
    (written = << >> /\ committed = << >> /\ ~CommitInProgress)
    => /\ \A p \in Procs :
            IsOpen(p) => /\ View(p) = Zeros(SUPERBLOCK_SIZE)
                         /\ get_root_address(Handle(p)).ok
                         /\ get_root_address(Handle(p)).val = 0
       /\ ret.op = "get_root_address"
          => (ret.ok /\ ret.val = 0 /\ store = Zeros(SUPERBLOCK_SIZE))

\* get_root_address() has returned 0 on the first instance of the store
InitialStateWitness ==
    \E p \in Procs :
        /\ written = << >>
        /\ committed = << >>
        /\ \A q \in Procs \ {p} : pc[q] = "closed"
        /\ pc[p] = "ready"
        /\ ret = [by |-> p, op |-> "get_root_address", ok |-> TRUE, val |-> 0]
        /\ store.len = 2048
        /\ store.nz = {}

\* ------------------------------------------------------------------------
\* C8  Superblock invariant
\* ------------------------------------------------------------------------
\* C8: every open instance has a store of at least SUPERBLOCK_SIZE bytes,
\* and so has the backing file unless the instance holding the lock still
\* has the padding in its buffer; every address write() returned is at
\* least SUPERBLOCK_SIZE; no byte of the superblock past the root field is
\* ever set, in the file or in a buffer.
SuperblockInvariant ==
    /\ \A p \in Procs : IsOpen(p) => View(p).len >= SUPERBLOCK_SIZE
    /\ (\E p \in Procs : IsOpen(p))
       => \/ store.len >= SUPERBLOCK_SIZE
          \/ \E p \in Procs : locked[p] /\ wbuf[p].data.len > 0
    /\ \A i \in 1..Len(written) : written[i].addr >= SUPERBLOCK_SIZE
    /\ \A p \in Procs : \A e \in View(p).nz :
          e[1] < INTEGER_LENGTH \/ e[1] >= SUPERBLOCK_SIZE

\* two records in the backing file, the first at 2048, and a root committed
SuperblockInvariantWitness ==
    /\ Len(written) = 2
    /\ written[1].addr = 2048
    /\ written[1].data = Hello
    /\ written[2].data = Hello
    /\ Durable(written[2])
    /\ committed = <<written[2].addr>>
    /\ store.len = 2048 + 13 + 13

\* ------------------------------------------------------------------------
\* C9  Idempotent reservation
\* ------------------------------------------------------------------------
\* C9: the reservation of a constructor that finds SUPERBLOCK_SIZE bytes or
\* more writes nothing: the backing file (length, root, records) is as
\* before and the buffer is empty; on a shorter store it leaves a store of
\* exactly SUPERBLOCK_SIZE bytes whose first bytes are the ones that were
\* there and whose other bytes are zero.
IdempotentReservation ==
    [][\A p \in Procs :
         (ret'.by = p /\ ret'.op = "init")
         => IF store.len >= SUPERBLOCK_SIZE
            THEN store' = store /\ wbuf'[p] = NoBuf
            ELSE /\ Overwrite(store', wbuf'[p].at, wbuf'[p].data)
                      = [len |-> SUPERBLOCK_SIZE, nz |-> store.nz]
                 /\ store' \in {store, [len |-> SUPERBLOCK_SIZE, nz |-> store.nz]}]_vars

\* a store that began with nine bytes was padded, received two records and
\* a commit, and has just been opened again
IdempotentReservationWitness ==
    /\ ret.op = "init"
    /\ <<8, 7>> \in store.nz
    /\ Len(written) = 2
    /\ committed # << >>
    /\ store.len > SUPERBLOCK_SIZE
    /\ \A i \in 1..2 : Durable(written[i])

\* ------------------------------------------------------------------------
\* C10  Corruption detection
\* ------------------------------------------------------------------------
\* the backing file ends inside record r, with nothing left in a buffer
EndsInside(r) ==
    /\ r.addr < store.len
    /\ store.len < RecordEnd(r)
    /\ \A p \in Procs : wbuf[p].data.len = 0

\* C10: when the backing file has been cut so that it ends inside a record,
\* a read() at the address of that record fails; read() never returns fewer
\* payload bytes than the length prefix it decoded.
CorruptionDetected ==
    /\ \A i \in 1..Len(written) :
          (ret.op = "read" /\ ret.arg = written[i].addr /\ EndsInside(written[i]))
          => ~ret.ok
    /\ (ret.op = "read" /\ ret.ok) => ret.val.len = ret.length

\* ------------------------------------------------------------------------
\* C11  Address range check
\* ------------------------------------------------------------------------
\* C11: a read() at an address inside the superblock (below SUPERBLOCK_SIZE,
\* address 0 included) or at or past the end of the store fails.
AddressRangeChecked ==
    (/\ ret.op = "read"
     /\ \/ ret.arg < SUPERBLOCK_SIZE
        \/ ret.arg >= store.len)
    => ~ret.ok

\* ------------------------------------------------------------------------
\* C12  Commit is the transaction boundary
\* ------------------------------------------------------------------------
\* the state in which commit_root_address(X) returns: the instance does not
\* hold the lock, its flag is false, it has nothing pending, and bytes
\* [0, 8) of the backing file are X
CommitPostcondition ==
    ret.op = "commit_root_address"
    => /\ owner # ret.by
       /\ ~locked[ret.by]
       /\ wbuf[ret.by].data.len = 0
       /\ Slice(store, 0, INTEGER_LENGTH) = _itob(ret.arg)

\* a get_root_address() that completes after commit_root_address(X) has
\* returned, with no later commit under way, returns X
RootSeenAfterCommit ==
    (/\ ret.op = "get_root_address"
     /\ committed # << >>
     /\ ~CommitInProgress)
    => (ret.ok /\ ret.val = committed[1])

\* C12: when commit_root_address(X) returns, the instance has released the
\* lock, its held flag is false and the flushed store holds X in bytes
\* [0, 8); every process that reads the root afterwards sees X.
TransactionBoundary == CommitPostcondition /\ RootSeenAfterCommit

\* ------------------------------------------------------------------------
\* C13  lock() is idempotent and non-counting
\* ------------------------------------------------------------------------
\* the step makes p the holder of the OS-level lock (portalocker.lock returns)
Acquires(p) == owner # p /\ owner' = p

\* C13: a lock() call on an instance that does not hold the lock acquires
\* the OS-level lock, sets the flag and returns true; on an instance that
\* holds it, it acquires nothing, leaves owner and flag as they are and
\* returns false.  Every OS-level acquisition, by lock() itself or inside
\* the constructor, write() or commit_root_address(), starts with the flag
\* false and sets it, so acquisitions and true returns of lock() match one
\* to one.
LockIdempotent ==
    [][\A p \in Procs :
          /\ (ret'.op = "lock" /\ ret'.by = p)
             => IF locked[p]
                THEN /\ ret'.val = FALSE
                     /\ ~Acquires(p)
                     /\ owner' = p
                     /\ locked'[p]
                ELSE /\ ret'.val = TRUE
                     /\ Acquires(p)
                     /\ locked'[p]
          /\ Acquires(p) => (owner = NoProc /\ ~locked[p] /\ locked'[p])]_vars

\* lock() has just returned false to a process that holds the lock with a
\* record pending
LockIdempotentWitness ==
    /\ ret.op = "lock"
    /\ ret.val = FALSE
    /\ owner = ret.by
    /\ locked[ret.by]
    /\ wbuf[ret.by].data.len > INTEGER_LENGTH

\* ------------------------------------------------------------------------
\* C14  unlock()
\* ------------------------------------------------------------------------
\* C14: an unlock() on an instance that holds the lock leaves the backing
\* file with every pending byte of the instance in place, the lock free and
\* the flag false, whatever lock(), write() and other calls came before; an
\* unlock() on an instance that does not hold the lock changes nothing: not
\* the backing file, not the lock or its holder, not a flag, not the buffers
\* of the file object.
UnlockSemantics ==
    [][\A p \in Procs :
          (ret'.op = "unlock" /\ ret'.by = p)
          => IF locked[p]
             THEN /\ owner = p
                  /\ store' = View(p)
                  /\ wbuf'[p] = NoBuf
                  /\ owner' = NoProc
                  /\ ~locked'[p]
                  /\ \A q \in Procs \ {p} : locked'[q] = locked[q]
             ELSE UNCHANGED <<store, owner, locked, wbuf, rbuf>>]_vars

\* unlock() has just returned: the record the instance had pending is in
\* the backing file and the lock is free for the process waiting in write()
UnlockSemanticsWitness ==
    \E q \in Procs :
        /\ ret.op = "unlock"
        /\ ret.by # q
        /\ owner = NoProc
        /\ pc[q] = "write"
        /\ Len(written) > 0
        /\ Durable(LastWrite)

\* ------------------------------------------------------------------------
\* C15  A failing lock call
\* ------------------------------------------------------------------------
\* C15: when portalocker.lock raises inside lock(), the call that was
\* running (the constructor, write(), commit_root_address() or lock()
\* itself) ends with the error, the held flag of the instance is false
\* before and after, and nothing is written: the backing file, the pending
\* bytes of every instance, the holder of the lock, the records written and
\* the committed root are as they were.
LockFailure ==
    [][ret'.op = "error"
       => /\ ~locked[ret'.by]
          /\ ~locked'[ret'.by]
          /\ owner' # ret'.by
          /\ UNCHANGED <<store, wbuf, owner, locked, written, committed>>]_vars

\* a write() has just failed in lock() while another process holds the
\* lock with a record pending
LockFailureWitness ==
    \E q \in Procs :
        /\ ret.op = "error"
        /\ ret.in = "write"
        /\ ret.by # q
        /\ owner = q
        /\ wbuf[q].data.len > INTEGER_LENGTH

\* ------------------------------------------------------------------------
\* C16  Opening holds the lock
\* ------------------------------------------------------------------------
\* C16: the constructor returns with the lock held and the flag set; the
\* instance stops holding it only in its own unlock(), commit_root_address()
\* or close(); and a constructor completes only in a step that starts with
\* the lock free, so none completes on another process while the instance
\* holds the lock.
OpeningHoldsLock ==
    [][\A p \in Procs :
          /\ (ret'.op = "init" /\ ret'.by = p)
             => /\ owner = NoProc
                /\ \A q \in Procs : ~locked[q]
                /\ owner' = p
                /\ locked'[p]
          /\ (owner = p /\ locked[p] /\ ~(ret'.by = p /\ ret'.op \in
                  {"commit_root_address", "unlock", "close"}))
             => /\ owner' = p
                /\ locked'[p]
                /\ ret'.op # "init"]_vars

\* p's constructor has returned and p has called nothing that releases the
\* lock; q is waiting in the lock() of its constructor
OpeningHoldsLockWitness ==
    \E p \in Procs : \E q \in Procs \ {p} :
        /\ pc[p] = "ready"
        /\ owner = p
        /\ locked[p]
        /\ committed = << >>
        /\ pc[q] = "init"
        /\ store = Zeros(0)
        /\ wbuf[p].data.len = SUPERBLOCK_SIZE

\* ------------------------------------------------------------------------
\* C17  Contiguous layout
\* ------------------------------------------------------------------------
\* C17: write(data) returns the length the store had just before the call
\* and makes it exactly 8 + len(data) longer, the new bytes being the length
\* prefix and the payload; so the first write on a newly reserved store
\* returns SUPERBLOCK_SIZE and every later write returns the address of the
\* write before it + 8 + the length of that payload, whatever commits,
\* reads, unlocks and reopenings came in between.
ContiguousLayout ==
    [][\A p \in Procs :
          (ret'.op = "write" /\ ret'.by = p)
          => /\ ret'.val = View(p).len
             /\ View(p)'.len = View(p).len + INTEGER_LENGTH + ret'.arg.len
             /\ Slice(View(p)', 0, View(p).len) = View(p)
             /\ Slice(View(p)', ret'.val, View(p)'.len)
                  = Concat(_itob(ret'.arg.len), ret'.arg)
             /\ IF Len(written) = 0
                THEN ret'.val = SUPERBLOCK_SIZE
                ELSE ret'.val = LastWrite.addr + INTEGER_LENGTH
                                  + LastWrite.data.len]_vars

\* "hello" was written at 2048, 2048 was committed, and the write that has
\* just returned got 2061 = 2048 + 8 + 5
ContiguousLayoutWitness ==
    /\ Len(written) = 2
    /\ written[1].addr = SUPERBLOCK_SIZE
    /\ written[1].data = Hello
    /\ committed = <<SUPERBLOCK_SIZE>>
    /\ ret.op = "write"
    /\ ret.val = SUPERBLOCK_SIZE + INTEGER_LENGTH + 5

\* ------------------------------------------------------------------------
\* C18  Frame of the root and of the read operations
\* ------------------------------------------------------------------------
\* bytes [0, 8) of the byte string b
RootField(b) == Slice(b, 0, INTEGER_LENGTH)

\* the calls that are not commit_root_address, the constructor or close()
OtherCalls == {"write", "read", "get_root_address", "lock", "unlock"}

\* p is inside commit_root_address before or after the step
InCommit(p) ==
    \/ pc[p] \in {"commit", "commit_seek", "commit_flush"}
    \/ pc'[p] \in {"commit", "commit_seek", "commit_flush"}

\* write, read, get_root_address, lock and unlock leave the root field of
\* the store as it is, for the caller and in the backing file
RootFrame ==
    [][\A p \in Procs :
          (ret'.by = p /\ ret'.op \in OtherCalls)
          => /\ RootField(View(p)') = RootField(View(p))
             /\ store.len >= INTEGER_LENGTH
                => RootField(store') = RootField(store)]_vars

\* get_root_address and read take no lock and leave the holder of the lock,
\* the flags, and the content and length of the store as they are (the
\* store as the caller has it: its seek may move the caller's own pending
\* bytes into the backing file)
ReadFrame ==
    [][\A p \in Procs :
          (ret'.by = p /\ ret'.op \in {"read", "get_root_address"})
          => /\ UNCHANGED <<owner, locked>>
             /\ View(p)' = View(p)
             /\ Overwrite(store', wbuf[p].at, wbuf[p].data) = store']_vars

\* commit_root_address changes no byte outside [0, 8) and not the length
CommitFrame ==
    [][\A p \in Procs :
          (ProcNext(p) /\ InCommit(p))
          => /\ View(p)'.len = View(p).len
             /\ Slice(View(p)', INTEGER_LENGTH, View(p).len)
                  = Slice(View(p), INTEGER_LENGTH, View(p).len)]_vars

\* a get_root_address() that completes while no commit is under way returns
\* the argument of the last commit_root_address() that returned, 0 if none
RootIsLastCommit ==
    [](( ret.op = "get_root_address" /\ ~CommitInProgress)
       => /\ ret.ok
          /\ ret.val = IF committed = << >> THEN 0 ELSE committed[1])

\* C18: the root changes only in commit_root_address, so get_root_address()
\* returns the argument of the most recent commit (0 if none); write, read,
\* get_root_address, lock and unlock leave the root unchanged;
\* get_root_address and read take no lock and change neither the lock state
\* nor the store; commit_root_address changes only bytes [0, 8).
RootAndReadFrame == RootIsLastCommit /\ RootFrame /\ ReadFrame /\ CommitFrame

\* ------------------------------------------------------------------------
\* C19  Records reach the store before the root that points at them
\* ------------------------------------------------------------------------
\* the root address that the bytes of the backing file hold
StoredRoot == _btoi(RootField(store))

\* C19: in every state, so wherever a crash leaves the backing file, a root
\* field of the backing file that holds an address A # 0 returned by a
\* write() has the whole record of that write, length prefix and payload,
\* in the backing file at A; and at the point where commit_root_address is
\* about to write the root (after its flush, line 100) the instance has no
\* byte pending and every record is in the backing file.
RecordBeforeRoot ==
    /\ \A i \in 1..Len(written) :
          (/\ store.len >= INTEGER_LENGTH
           /\ StoredRoot.val # 0
           /\ StoredRoot.val = written[i].addr)
          => Durable(written[i])
    /\ \A p \in Procs :
          pc[p] = "commit_seek"
          => /\ wbuf[p] = NoBuf
             /\ \A i \in 1..Len(written) : Durable(written[i])

\* the root of the last record, "hello", written by p, is in the backing
\* file while p's commit has not returned yet, and so is the record
RecordBeforeRootWitness ==
    \E p \in Procs :
        /\ pc[p] = "commit_flush"
        /\ Len(written) > 0
        /\ LastWrite.by = p
        /\ LastWrite.data = Hello
        /\ StoredRoot.val = LastWrite.addr
        /\ Durable(LastWrite)

\* ------------------------------------------------------------------------
\* C20  Lock liveness
\* ------------------------------------------------------------------------
\* p waits in the lock() of its constructor, write, commit_root_address or
\* of a lock() call
Blocked(p) == pc[p] \in {"init", "write", "commit", "lock"}

\* the call of p that had waited in lock() has returned
Completed(p) ==
    /\ ret.by = p
    /\ ret.op \in {"init", "write", "lock", "commit_root_address"}

====
